---- MODULE Spec2Model ----
(***************************************************************************)
(* OrderedThreadPool (ordered_thread_pool.h) and its users.               *)
(*                                                                         *)
(* Threads: the worker threads spawned by the constructor, the threads    *)
(* that call Do ("pushers", as in the MultiplePusher test) and the thread  *)
(* that owns the pool and runs its destructor.  Every step below is one    *)
(* atomic piece of the code: taking a mutex, evaluating a wait predicate,  *)
(* blocking on a condition variable, a critical section, a callback.       *)
(***************************************************************************)
EXTENDS Integers, Sequences, FiniteSets, TLC

\* ---------------------------------------------------------------- bounds
MaxWorkers == 2
MaxPending == 1
NumPushers == 2
MaxJobs == 3

\* ---------------------------------------------------------------- threads
Pushers == 1..NumPushers
NoThread == <<"none", 0>>
WorkerThread(w) == <<"worker", w>>
PusherThread(s) == <<"pusher", s>>

\* std::optional<Job> without a value / a Job that was never filled in.
NoJob == [job_fn |-> -1, completion_fn |-> -1, job_id |-> -1]
NoResult == -1

VARIABLES
  workers_,          \* the worker threads (ids 1..num_workers)
  max_queue_size_,
  pushers,           \* how many threads call Do in this run
  fn_queue_,
  fn_queue_mtx_,     \* owner of the mutex, or NoThread
  job_count_,
  ticket_num_,
  ticket_mtx_,       \* owner of the mutex, or NoThread
  terminate_now_,
  wpc, job, result,  \* per worker: position, Worker()'s job and result
  spc, arg, fn_out,  \* per pusher: position, the i of RunTest1, fn()'s value
  dpc, join_i,       \* the owner: position, index of the join loop
  calls,             \* history: number of Do calls made so far
  fn_runs,           \* history: how often each job_fn has run
  completions,       \* history: the completion callbacks, in invocation order
  queued_at_dtor,    \* history: Len(fn_queue_) when the destructor began
  late_calls         \* history: the Do calls made after the destructor began

vars == <<workers_, max_queue_size_, pushers, fn_queue_, fn_queue_mtx_,
          job_count_, ticket_num_, ticket_mtx_, terminate_now_, wpc, job,
          result, spc, arg, fn_out, dpc, join_i, calls, fn_runs, completions,
          queued_at_dtor, late_calls>>

cfgVars == <<workers_, max_queue_size_, pushers>>
queueVars == <<fn_queue_, job_count_>>
ticketVars == <<ticket_num_, ticket_mtx_>>
workerVars == <<wpc, job, result>>
pusherVars == <<spc, arg, fn_out>>
ownerVars == <<dpc, join_i, queued_at_dtor, terminate_now_>>
histVars == <<calls, fn_runs, completions, late_calls>>

\* ---------------------------------------------------------------- helpers
\* The closures of RunTest1: job_fn is [i] { return i; }.
JobFn(i) == i

\* condition_variable::notify_one: one of the threads blocked on it is woken
\* (none when nobody waits).  The result is the set of possible new pc maps.
NotifyOne(pcf, blocked, woken) ==
  IF \A t \in DOMAIN pcf : pcf[t] # blocked
    THEN {pcf}
    ELSE {[pcf EXCEPT ![t] = woken] : t \in {u \in DOMAIN pcf : pcf[u] = blocked}}

\* condition_variable::notify_all.
NotifyAll(pcf, blocked, woken) ==
  [t \in DOMAIN pcf |-> IF pcf[t] = blocked THEN woken ELSE pcf[t]]

\* ---------------------------------------------------------------- Init
\* The constructor: max_queue_size_(max_pending_jobs), num_workers threads
\* pushed to workers_, each entering Worker(); the defaults of the members.
Init ==
  /\ workers_ \in {1..n : n \in 0..MaxWorkers}
  /\ max_queue_size_ \in 0..MaxPending
  /\ pushers \in Pushers
  /\ fn_queue_ = <<>>
  /\ fn_queue_mtx_ = NoThread
  /\ job_count_ = 0
  /\ ticket_num_ = 0
  /\ ticket_mtx_ = NoThread
  /\ terminate_now_ = FALSE
  /\ wpc = [w \in 1..MaxWorkers |-> IF w \in workers_ THEN "nj_lock" ELSE "none"]
  /\ job = [w \in 1..MaxWorkers |-> NoJob]
  /\ result = [w \in 1..MaxWorkers |-> NoResult]
  /\ spc = [s \in Pushers |-> "idle"]
  /\ arg = [s \in Pushers |-> -1]
  /\ fn_out = [s \in Pushers |-> NoResult]
  /\ dpc = "live"
  /\ join_i = 0
  /\ calls = 0
  /\ fn_runs = [i \in 0..(MaxJobs - 1) |-> 0]
  /\ completions = <<>>
  /\ queued_at_dtor = -1
  /\ late_calls = {}

\* ---------------------------------------------------------------- Do
\* Mutant of DoPredicate: the comparison is <= instead of <.
DoPredicate_OffByOne ==
  max_queue_size_ = 0 \/ Len(fn_queue_) <= max_queue_size_

\* Mutant of DoPredicate: the max_queue_size_ == 0 case is missing.
DoPredicate_NoUnlimited ==
  Len(fn_queue_) < max_queue_size_

\* The wait predicate of Do (ordered_thread_pool.h:79).
DoPredicate ==
  max_queue_size_ = 0 \/ Len(fn_queue_) < max_queue_size_

\* Mutant of DoCall: the workers_.empty() branch is missing, the job is always
\* queued.
DoCall_AlwaysQueued(s) ==
  /\ s <= pushers
  /\ spc[s] = "idle"
  /\ dpc = "live"
  /\ calls < MaxJobs
  /\ arg' = [arg EXCEPT ![s] = calls]
  /\ calls' = calls + 1
  /\ spc' = [spc EXCEPT ![s] = "do_lock"]
  /\ UNCHANGED <<cfgVars, queueVars, fn_queue_mtx_, ticketVars, workerVars,
                 fn_out, ownerVars, fn_runs, completions, late_calls>>

\* A thread calls Do(fn, on_completion) with the next i of the test loop.
\* workers_.empty() sends it to the unthreaded branch, where it enters fn();
\* otherwise it goes on to construct the unique_lock.  The owner does not
\* destroy the pool while a Do is running, nor call Do afterwards.
DoCall(s) ==
  /\ s <= pushers
  /\ spc[s] = "idle"
  /\ dpc = "live"
  /\ calls < MaxJobs
  /\ arg' = [arg EXCEPT ![s] = calls]
  /\ calls' = calls + 1
  /\ spc' = [spc EXCEPT ![s] = IF workers_ = {} THEN "z_fn" ELSE "do_lock"]
  /\ UNCHANGED <<cfgVars, queueVars, fn_queue_mtx_, ticketVars, workerVars,
                 fn_out, ownerVars, fn_runs, completions, late_calls>>

\* Do called by another thread while the destructor is running: Do reads
\* neither terminate_now_ nor anything else of the shutdown, so the call takes
\* the same path as any other.
LateDoCall(s) ==
  /\ s <= pushers
  /\ spc[s] = "idle"
  /\ dpc \in {"d_notify", "d_join"}
  /\ calls < MaxJobs
  /\ arg' = [arg EXCEPT ![s] = calls]
  /\ calls' = calls + 1
  /\ late_calls' = late_calls \cup {calls}
  /\ spc' = [spc EXCEPT ![s] = IF workers_ = {} THEN "z_fn" ELSE "do_lock"]
  /\ UNCHANGED <<cfgVars, queueVars, fn_queue_mtx_, ticketVars, workerVars,
                 fn_out, ownerVars, fn_runs, completions>>

\* Mutant of ZeroFn: the unthreaded branch also draws a ticket (job_count_++).
ZeroFn_TakesTicket(s) ==
  /\ spc[s] = "z_fn"
  /\ fn_out' = [fn_out EXCEPT ![s] = JobFn(arg[s])]
  /\ fn_runs' = [fn_runs EXCEPT ![arg[s]] = @ + 1]
  /\ completions' = Append(completions,
       [completion_fn |-> arg[s], value |-> JobFn(arg[s]), job_id |-> -1])
  /\ job_count_' = job_count_ + 1
  /\ spc' = [spc EXCEPT ![s] = "z_completion"]
  /\ UNCHANGED <<cfgVars, fn_queue_, fn_queue_mtx_, ticketVars, workerVars,
                 arg, ownerVars, calls, late_calls>>

\* num_workers = 0: fn() returns and on_completion is entered with its value.
ZeroFn(s) ==
  /\ spc[s] = "z_fn"
  /\ fn_out' = [fn_out EXCEPT ![s] = JobFn(arg[s])]
  /\ fn_runs' = [fn_runs EXCEPT ![arg[s]] = @ + 1]
  /\ completions' = Append(completions,
       [completion_fn |-> arg[s], value |-> JobFn(arg[s]), job_id |-> -1])
  /\ spc' = [spc EXCEPT ![s] = "z_completion"]
  /\ UNCHANGED <<cfgVars, queueVars, fn_queue_mtx_, ticketVars, workerVars,
                 arg, ownerVars, calls, late_calls>>

\* num_workers = 0: on_completion returns, and Do returns.
ZeroReturn(s) ==
  /\ spc[s] = "z_completion"
  /\ spc' = [spc EXCEPT ![s] = "idle"]
  /\ fn_out' = [fn_out EXCEPT ![s] = NoResult]
  /\ UNCHANGED <<cfgVars, queueVars, fn_queue_mtx_, ticketVars, workerVars,
                 arg, ownerVars, histVars>>

\* Mutant of DoLock: the job_removed_.wait is missing, Do pushes at once.
DoLock_NoWait(s) ==
  /\ spc[s] = "do_lock"
  /\ fn_queue_mtx_ = NoThread
  /\ fn_queue_mtx_' = PusherThread(s)
  /\ spc' = [spc EXCEPT ![s] = "do_push"]
  /\ UNCHANGED <<cfgVars, queueVars, ticketVars, workerVars, arg, fn_out,
                 ownerVars, histVars>>

\* std::unique_lock<std::mutex> lck(fn_queue_mtx_) or, after a wake-up, the
\* re-lock inside job_removed_.wait(lck, pred); then the predicate, evaluated
\* with the lock held.
DoLock(s) ==
  /\ spc[s] = "do_lock"
  /\ fn_queue_mtx_ = NoThread
  /\ fn_queue_mtx_' = PusherThread(s)
  /\ spc' = [spc EXCEPT ![s] = IF DoPredicate THEN "do_push" ELSE "do_block"]
  /\ UNCHANGED <<cfgVars, queueVars, ticketVars, workerVars, arg, fn_out,
                 ownerVars, histVars>>

\* job_removed_.wait: the lock is released and the thread blocks.
DoBlock(s) ==
  /\ spc[s] = "do_block"
  /\ fn_queue_mtx_' = NoThread
  /\ spc' = [spc EXCEPT ![s] = "do_blocked"]
  /\ UNCHANGED <<cfgVars, queueVars, ticketVars, workerVars, arg, fn_out,
                 ownerVars, histVars>>

\* Mutant of DoPush: fn is called by Do itself before the job is queued.
DoPush_EagerFn(s) ==
  /\ spc[s] = "do_push"
  /\ fn_queue_' = Append(fn_queue_,
       [job_fn |-> arg[s], completion_fn |-> arg[s], job_id |-> job_count_])
  /\ job_count_' = job_count_ + 1
  /\ fn_runs' = [fn_runs EXCEPT ![arg[s]] = @ + 1]
  /\ wpc' \in NotifyOne(wpc, "nj_blocked", "nj_lock")
  /\ fn_queue_mtx_' = NoThread
  /\ spc' = [spc EXCEPT ![s] = "idle"]
  /\ UNCHANGED <<cfgVars, ticketVars, job, result, arg, fn_out, ownerVars,
                 calls, completions, late_calls>>

\* Mutant of DoPush: .job_id = job_count_ without the increment.
DoPush_NoIncrement(s) ==
  /\ spc[s] = "do_push"
  /\ fn_queue_' = Append(fn_queue_,
       [job_fn |-> arg[s], completion_fn |-> arg[s], job_id |-> job_count_])
  /\ job_count_' = job_count_
  /\ wpc' \in NotifyOne(wpc, "nj_blocked", "nj_lock")
  /\ fn_queue_mtx_' = NoThread
  /\ spc' = [spc EXCEPT ![s] = "idle"]
  /\ UNCHANGED <<cfgVars, ticketVars, job, result, arg, fn_out, ownerVars,
                 histVars>>

\* fn_queue_.push(Job{..., .job_id = job_count_++}); job_added_.notify_one();
\* the lock is released when Do returns.
DoPush(s) ==
  /\ spc[s] = "do_push"
  /\ fn_queue_' = Append(fn_queue_,
       [job_fn |-> arg[s], completion_fn |-> arg[s], job_id |-> job_count_])
  /\ job_count_' = job_count_ + 1
  /\ wpc' \in NotifyOne(wpc, "nj_blocked", "nj_lock")
  /\ fn_queue_mtx_' = NoThread
  /\ spc' = [spc EXCEPT ![s] = "idle"]
  /\ UNCHANGED <<cfgVars, ticketVars, job, result, arg, fn_out, ownerVars,
                 histVars>>

\* ---------------------------------------------------------------- NextJob
\* The wait predicate of NextJob (ordered_thread_pool.h:110).
NextJobPredicate ==
  fn_queue_ # <<>> \/ terminate_now_

\* Mutant of NextJobLock: one mutex guards both the queue and the sequencer,
\* so NextJob cannot lock while a callback runs.
NextJobLock_SingleMutex(w) ==
  /\ wpc[w] = "nj_lock"
  /\ fn_queue_mtx_ = NoThread
  /\ ticket_mtx_ = NoThread
  /\ fn_queue_mtx_' = WorkerThread(w)
  /\ wpc' = [wpc EXCEPT ![w] = IF NextJobPredicate THEN "nj_check" ELSE "nj_block"]
  /\ UNCHANGED <<cfgVars, queueVars, ticketVars, job, result, pusherVars,
                 ownerVars, histVars>>

\* std::unique_lock<std::mutex> lck(fn_queue_mtx_) or, after a wake-up, the
\* re-lock inside job_added_.wait(lck, pred); then the predicate, evaluated
\* with the lock held.
NextJobLock(w) ==
  /\ wpc[w] = "nj_lock"
  /\ fn_queue_mtx_ = NoThread
  /\ fn_queue_mtx_' = WorkerThread(w)
  /\ wpc' = [wpc EXCEPT ![w] = IF NextJobPredicate THEN "nj_check" ELSE "nj_block"]
  /\ UNCHANGED <<cfgVars, queueVars, ticketVars, job, result, pusherVars,
                 ownerVars, histVars>>

\* job_added_.wait: the lock is released and the thread blocks.
NextJobBlock(w) ==
  /\ wpc[w] = "nj_block"
  /\ fn_queue_mtx_' = NoThread
  /\ wpc' = [wpc EXCEPT ![w] = "nj_blocked"]
  /\ UNCHANGED <<cfgVars, queueVars, ticketVars, job, result, pusherVars,
                 ownerVars, histVars>>

\* Mutant of NextJobTake: returns {} as soon as terminate_now_ is set, whatever
\* the queue holds.
NextJobTake_NoDrain(w) ==
  /\ wpc[w] = "nj_check"
  /\ IF terminate_now_
       THEN /\ wpc' = [wpc EXCEPT ![w] = "exited"]
            /\ UNCHANGED <<fn_queue_, job>>
       ELSE /\ job' = [job EXCEPT ![w] = Head(fn_queue_)]
            /\ fn_queue_' = Tail(fn_queue_)
            /\ wpc' = [wpc EXCEPT ![w] = "nj_notify"]
  /\ fn_queue_mtx_' = NoThread
  /\ UNCHANGED <<cfgVars, job_count_, ticketVars, result, pusherVars,
                 ownerVars, histVars>>

\* Mutant of NextJobTake: front() without pop().
NextJobTake_NoPop(w) ==
  /\ wpc[w] = "nj_check"
  /\ IF terminate_now_ /\ fn_queue_ = <<>>
       THEN /\ wpc' = [wpc EXCEPT ![w] = "exited"]
            /\ UNCHANGED <<fn_queue_, job>>
       ELSE /\ job' = [job EXCEPT ![w] = Head(fn_queue_)]
            /\ fn_queue_' = fn_queue_
            /\ wpc' = [wpc EXCEPT ![w] = "nj_notify"]
  /\ fn_queue_mtx_' = NoThread
  /\ UNCHANGED <<cfgVars, job_count_, ticketVars, result, pusherVars,
                 ownerVars, histVars>>

\* Mutant of NextJobTake: lck.unlock() is missing and the lock outlives
\* NextJob.
NextJobTake_KeepLock(w) ==
  /\ wpc[w] = "nj_check"
  /\ IF terminate_now_ /\ fn_queue_ = <<>>
       THEN /\ wpc' = [wpc EXCEPT ![w] = "exited"]
            /\ fn_queue_mtx_' = NoThread
            /\ UNCHANGED <<fn_queue_, job>>
       ELSE /\ job' = [job EXCEPT ![w] = Head(fn_queue_)]
            /\ fn_queue_' = Tail(fn_queue_)
            /\ fn_queue_mtx_' = fn_queue_mtx_
            /\ wpc' = [wpc EXCEPT ![w] = "nj_notify"]
  /\ UNCHANGED <<cfgVars, job_count_, ticketVars, result, pusherVars,
                 ownerVars, histVars>>

\* Mutant of NextJobTake: back() instead of front(), the newest job is taken.
NextJobTake_TakesBack(w) ==
  /\ wpc[w] = "nj_check"
  /\ IF terminate_now_ /\ fn_queue_ = <<>>
       THEN /\ wpc' = [wpc EXCEPT ![w] = "exited"]
            /\ UNCHANGED <<fn_queue_, job>>
       ELSE /\ job' = [job EXCEPT ![w] = fn_queue_[Len(fn_queue_)]]
            /\ fn_queue_' = SubSeq(fn_queue_, 1, Len(fn_queue_) - 1)
            /\ wpc' = [wpc EXCEPT ![w] = "nj_notify"]
  /\ fn_queue_mtx_' = NoThread
  /\ UNCHANGED <<cfgVars, job_count_, ticketVars, result, pusherVars,
                 ownerVars, histVars>>

\* After the wait: return {} when terminate_now_ and the queue is empty (the
\* worker then returns from Worker()), else front(), pop() and lck.unlock().
NextJobTake(w) ==
  /\ wpc[w] = "nj_check"
  /\ IF terminate_now_ /\ fn_queue_ = <<>>
       THEN /\ wpc' = [wpc EXCEPT ![w] = "exited"]
            /\ UNCHANGED <<fn_queue_, job>>
       ELSE /\ job' = [job EXCEPT ![w] = Head(fn_queue_)]
            /\ fn_queue_' = Tail(fn_queue_)
            /\ wpc' = [wpc EXCEPT ![w] = "nj_notify"]
  /\ fn_queue_mtx_' = NoThread
  /\ UNCHANGED <<cfgVars, job_count_, ticketVars, result, pusherVars,
                 ownerVars, histVars>>

\* Mutant of NextJobNotify: job_removed_.notify_one() is missing.
NextJobNotify_NoNotify(w) ==
  /\ wpc[w] = "nj_notify"
  /\ spc' = spc
  /\ wpc' = [wpc EXCEPT ![w] = "job_fn"]
  /\ UNCHANGED <<cfgVars, queueVars, fn_queue_mtx_, ticketVars, job, result,
                 arg, fn_out, ownerVars, histVars>>

\* job_removed_.notify_one(); NextJob returns the job and Worker enters
\* job.job_fn().
NextJobNotify(w) ==
  /\ wpc[w] = "nj_notify"
  /\ spc' \in NotifyOne(spc, "do_blocked", "do_lock")
  /\ wpc' = [wpc EXCEPT ![w] = "job_fn"]
  /\ UNCHANGED <<cfgVars, queueVars, fn_queue_mtx_, ticketVars, job, result,
                 arg, fn_out, ownerVars, histVars>>

\* ---------------------------------------------------------------- Worker
\* Mutant of JobFnReturn: once terminate_now_ is set the worker returns from
\* Worker() right after job_fn(), leaving its job without a callback.
JobFnReturn_QuitOnTerminate(w) ==
  /\ wpc[w] = "job_fn"
  /\ result' = [result EXCEPT ![w] = JobFn(job[w].job_fn)]
  /\ fn_runs' = [fn_runs EXCEPT ![job[w].job_fn] = @ + 1]
  /\ wpc' = [wpc EXCEPT ![w] = IF terminate_now_ THEN "exited" ELSE "tk_lock"]
  /\ UNCHANGED <<cfgVars, queueVars, fn_queue_mtx_, ticketVars, job,
                 pusherVars, ownerVars, calls, completions, late_calls>>

\* Mutant of JobFnReturn: the value of job_fn() is not kept in result.
JobFnReturn_ResultLost(w) ==
  /\ wpc[w] = "job_fn"
  /\ result' = result
  /\ fn_runs' = [fn_runs EXCEPT ![job[w].job_fn] = @ + 1]
  /\ wpc' = [wpc EXCEPT ![w] = "tk_lock"]
  /\ UNCHANGED <<cfgVars, queueVars, fn_queue_mtx_, ticketVars, job,
                 pusherVars, ownerVars, calls, completions, late_calls>>

\* ReturnType result = job.job_fn() returns.
JobFnReturn(w) ==
  /\ wpc[w] = "job_fn"
  /\ result' = [result EXCEPT ![w] = JobFn(job[w].job_fn)]
  /\ fn_runs' = [fn_runs EXCEPT ![job[w].job_fn] = @ + 1]
  /\ wpc' = [wpc EXCEPT ![w] = "tk_lock"]
  /\ UNCHANGED <<cfgVars, queueVars, fn_queue_mtx_, ticketVars, job,
                 pusherVars, ownerVars, calls, completions, late_calls>>

\* Mutant of TicketPredicate: the comparison is <= instead of ==.
TicketPredicate_NotYetPassed(w) ==
  ticket_num_ <= job[w].job_id

\* The wait predicate of the sequencer (ordered_thread_pool.h:137).
TicketPredicate(w) ==
  ticket_num_ = job[w].job_id

\* Mutant of TicketLock: the sequencer is advanced and released before the
\* callback, so job.completion_fn(result) runs outside the critical section.
TicketLock_EarlyRelease(w) ==
  /\ wpc[w] = "tk_lock"
  /\ ticket_mtx_ = NoThread
  /\ IF TicketPredicate(w)
       THEN /\ completions' = Append(completions,
                 [completion_fn |-> job[w].completion_fn, value |-> result[w],
                  job_id |-> job[w].job_id])
            /\ ticket_num_' = ticket_num_ + 1
            /\ ticket_mtx_' = NoThread
            /\ wpc' = [NotifyAll(wpc, "tk_blocked", "tk_lock")
                         EXCEPT ![w] = "completion_fn"]
       ELSE /\ wpc' = [wpc EXCEPT ![w] = "tk_block"]
            /\ ticket_mtx_' = WorkerThread(w)
            /\ UNCHANGED <<completions, ticket_num_>>
  /\ UNCHANGED <<cfgVars, queueVars, fn_queue_mtx_, job, result,
                 pusherVars, ownerVars, calls, fn_runs, late_calls>>

\* Mutant of TicketLock: completion_fn is called with job.job_id instead of
\* result.
TicketLock_PassesTicket(w) ==
  /\ wpc[w] = "tk_lock"
  /\ ticket_mtx_ = NoThread
  /\ ticket_mtx_' = WorkerThread(w)
  /\ IF TicketPredicate(w)
       THEN /\ completions' = Append(completions,
                 [completion_fn |-> job[w].completion_fn,
                  value |-> job[w].job_id, job_id |-> job[w].job_id])
            /\ wpc' = [wpc EXCEPT ![w] = "completion_fn"]
       ELSE /\ wpc' = [wpc EXCEPT ![w] = "tk_block"]
            /\ UNCHANGED completions
  /\ UNCHANGED <<cfgVars, queueVars, fn_queue_mtx_, ticket_num_, job, result,
                 pusherVars, ownerVars, calls, fn_runs, late_calls>>

\* std::unique_lock<std::mutex> lck(ticket_mtx_) or, after a wake-up, the
\* re-lock inside ticket_update_.wait(lck, pred); then the predicate,
\* evaluated with the lock held.  When it holds, job.completion_fn(result)
\* is entered.
TicketLock(w) ==
  /\ wpc[w] = "tk_lock"
  /\ ticket_mtx_ = NoThread
  /\ ticket_mtx_' = WorkerThread(w)
  /\ IF TicketPredicate(w)
       THEN /\ completions' = Append(completions,
                 [completion_fn |-> job[w].completion_fn, value |-> result[w],
                  job_id |-> job[w].job_id])
            /\ wpc' = [wpc EXCEPT ![w] = "completion_fn"]
       ELSE /\ wpc' = [wpc EXCEPT ![w] = "tk_block"]
            /\ UNCHANGED completions
  /\ UNCHANGED <<cfgVars, queueVars, fn_queue_mtx_, ticket_num_, job, result,
                 pusherVars, ownerVars, calls, fn_runs, late_calls>>

\* ticket_update_.wait: the lock is released and the thread blocks.
TicketBlock(w) ==
  /\ wpc[w] = "tk_block"
  /\ ticket_mtx_' = NoThread
  /\ wpc' = [wpc EXCEPT ![w] = "tk_blocked"]
  /\ UNCHANGED <<cfgVars, queueVars, fn_queue_mtx_, ticket_num_, job, result,
                 pusherVars, ownerVars, histVars>>

\* job.completion_fn(result) returns.
CompletionReturn(w) ==
  /\ wpc[w] = "completion_fn"
  /\ wpc' = [wpc EXCEPT ![w] = "tk_inc"]
  /\ UNCHANGED <<cfgVars, queueVars, fn_queue_mtx_, ticketVars, job, result,
                 pusherVars, ownerVars, histVars>>

\* Mutant of TicketAdvance: ticket_num_ += 2.
TicketAdvance_TwoSteps(w) ==
  /\ wpc[w] = "tk_inc"
  /\ ticket_num_' = ticket_num_ + 2
  /\ wpc' = [NotifyAll(wpc, "tk_blocked", "tk_lock") EXCEPT ![w] = "nj_lock"]
  /\ ticket_mtx_' = NoThread
  /\ job' = [job EXCEPT ![w] = NoJob]
  /\ result' = [result EXCEPT ![w] = NoResult]
  /\ UNCHANGED <<cfgVars, queueVars, fn_queue_mtx_, pusherVars, ownerVars,
                 histVars>>

\* Mutant of TicketAdvance: ticket_update_.notify_all() is missing.
TicketAdvance_NoNotify(w) ==
  /\ wpc[w] = "tk_inc"
  /\ ticket_num_' = ticket_num_ + 1
  /\ wpc' = [wpc EXCEPT ![w] = "nj_lock"]
  /\ ticket_mtx_' = NoThread
  /\ job' = [job EXCEPT ![w] = NoJob]
  /\ result' = [result EXCEPT ![w] = NoResult]
  /\ UNCHANGED <<cfgVars, queueVars, fn_queue_mtx_, pusherVars, ownerVars,
                 histVars>>

\* ++ticket_num_; ticket_update_.notify_all(); the end of the loop body
\* releases ticket_mtx_ and destroys job and result.
TicketAdvance(w) ==
  /\ wpc[w] = "tk_inc"
  /\ ticket_num_' = ticket_num_ + 1
  /\ wpc' = [NotifyAll(wpc, "tk_blocked", "tk_lock") EXCEPT ![w] = "nj_lock"]
  /\ ticket_mtx_' = NoThread
  /\ job' = [job EXCEPT ![w] = NoJob]
  /\ result' = [result EXCEPT ![w] = NoResult]
  /\ UNCHANGED <<cfgVars, queueVars, fn_queue_mtx_, pusherVars, ownerVars,
                 histVars>>

\* Worker() has no try block and is the function of a std::thread: an
\* exception leaving job_fn or completion_fn ends in std::terminate, which
\* stops every thread of the process.
Abort(pcf, threads, thrower) ==
  [t \in DOMAIN pcf |->
     IF t = thrower THEN "threw" ELSE IF t \in threads THEN "aborted" ELSE pcf[t]]

\* job.job_fn() throws.
JobFnThrow(w) ==
  /\ wpc[w] = "job_fn"
  /\ wpc' = Abort(wpc, workers_, w)
  /\ spc' = Abort(spc, Pushers, 0)
  /\ dpc' = "aborted"
  /\ UNCHANGED <<cfgVars, queueVars, fn_queue_mtx_, ticketVars, job, result,
                 arg, fn_out, join_i, queued_at_dtor, terminate_now_, histVars>>

\* job.completion_fn(result) throws, with ticket_mtx_ held.  Whether the
\* stack is unwound (and lck released) before std::terminate is up to the
\* implementation.
CompletionThrow(w) ==
  /\ wpc[w] = "completion_fn"
  /\ wpc' = Abort(wpc, workers_, w)
  /\ spc' = Abort(spc, Pushers, 0)
  /\ dpc' = "aborted"
  /\ ticket_mtx_' \in {ticket_mtx_, NoThread}
  /\ UNCHANGED <<cfgVars, queueVars, fn_queue_mtx_, ticket_num_, job, result,
                 arg, fn_out, join_i, queued_at_dtor, terminate_now_, histVars>>

\* ---------------------------------------------------------------- wake-ups
\* A condition_variable wait may return without a notification.
SpuriousJobAdded(w) ==
  /\ wpc[w] = "nj_blocked"
  /\ wpc' = [wpc EXCEPT ![w] = "nj_lock"]
  /\ UNCHANGED <<cfgVars, queueVars, fn_queue_mtx_, ticketVars, job, result,
                 pusherVars, ownerVars, histVars>>

SpuriousTicketUpdate(w) ==
  /\ wpc[w] = "tk_blocked"
  /\ wpc' = [wpc EXCEPT ![w] = "tk_lock"]
  /\ UNCHANGED <<cfgVars, queueVars, fn_queue_mtx_, ticketVars, job, result,
                 pusherVars, ownerVars, histVars>>

SpuriousJobRemoved(s) ==
  /\ spc[s] = "do_blocked"
  /\ spc' = [spc EXCEPT ![s] = "do_lock"]
  /\ UNCHANGED <<cfgVars, queueVars, fn_queue_mtx_, ticketVars, workerVars,
                 arg, fn_out, ownerVars, histVars>>

\* ---------------------------------------------------------------- destructor
\* terminate_now_ = true, written without fn_queue_mtx_.  The owner destroys
\* the pool when no Do call is in progress.
DtorSetTerminate ==
  /\ dpc = "live"
  /\ \A s \in Pushers : spc[s] = "idle"
  /\ terminate_now_' = TRUE
  /\ queued_at_dtor' = Len(fn_queue_)
  /\ dpc' = "d_notify"
  /\ UNCHANGED <<cfgVars, queueVars, fn_queue_mtx_, ticketVars, workerVars,
                 pusherVars, join_i, histVars>>

\* job_added_.notify_all(), also without the mutex.
DtorNotifyAll ==
  /\ dpc = "d_notify"
  /\ wpc' = NotifyAll(wpc, "nj_blocked", "nj_lock")
  /\ dpc' = "d_join"
  /\ UNCHANGED <<cfgVars, queueVars, fn_queue_mtx_, ticketVars, job, result,
                 pusherVars, join_i, queued_at_dtor, terminate_now_, histVars>>

\* for (std::thread& t : workers_) t.join(): one join returns.
DtorJoin ==
  /\ dpc = "d_join"
  /\ join_i < Cardinality(workers_)
  /\ wpc[join_i + 1] = "exited"
  /\ join_i' = join_i + 1
  /\ UNCHANGED <<cfgVars, queueVars, fn_queue_mtx_, ticketVars, workerVars,
                 pusherVars, dpc, queued_at_dtor, terminate_now_, histVars>>

\* The join loop is over: the destructor returns.
DtorReturn ==
  /\ dpc = "d_join"
  /\ join_i = Cardinality(workers_)
  /\ dpc' = "done"
  /\ UNCHANGED <<cfgVars, queueVars, fn_queue_mtx_, ticketVars, workerVars,
                 pusherVars, join_i, queued_at_dtor, terminate_now_, histVars>>

\* ---------------------------------------------------------------- Next
Next ==
  \/ \E s \in Pushers : DoCall(s)
  \/ \E s \in Pushers : ZeroFn(s)
  \/ \E s \in Pushers : ZeroReturn(s)
  \/ \E s \in Pushers : DoLock(s)
  \/ \E s \in Pushers : DoBlock(s)
  \/ \E s \in Pushers : DoPush(s)
  \/ \E w \in workers_ : NextJobLock(w)
  \/ \E w \in workers_ : NextJobBlock(w)
  \/ \E w \in workers_ : NextJobTake(w)
  \/ \E w \in workers_ : NextJobNotify(w)
  \/ \E w \in workers_ : JobFnReturn(w)
  \/ \E w \in workers_ : TicketLock(w)
  \/ \E w \in workers_ : TicketBlock(w)
  \/ \E w \in workers_ : CompletionReturn(w)
  \/ \E w \in workers_ : TicketAdvance(w)
  \/ \E w \in workers_ : SpuriousJobAdded(w)
  \/ \E w \in workers_ : SpuriousTicketUpdate(w)
  \/ \E s \in Pushers : SpuriousJobRemoved(s)
  \/ DtorSetTerminate
  \/ DtorNotifyAll
  \/ DtorJoin
  \/ DtorReturn

Spec == Init /\ [][Next]_vars

\* The pool used against its contract: Do is also called during destruction.
LateNext ==
  \/ Next
  \/ \E s \in Pushers : LateDoCall(s)

LateSpec == Init /\ [][LateNext]_vars

\* The pool with callbacks that may throw.
ThrowNext ==
  \/ Next
  \/ \E w \in workers_ : JobFnThrow(w)
  \/ \E w \in workers_ : CompletionThrow(w)

ThrowSpec == Init /\ [][ThrowNext]_vars

\* Fair scheduling: every thread that can take a step eventually takes one,
\* and a thread that keeps finding a mutex free eventually gets it.  DoCall
\* and DtorSetTerminate are the caller's choice and a spurious wake-up is
\* never owed, so none of them is fair.
WorkerRun(w) ==
  \/ NextJobBlock(w) \/ NextJobTake(w) \/ NextJobNotify(w) \/ JobFnReturn(w)
  \/ TicketBlock(w) \/ CompletionReturn(w) \/ TicketAdvance(w)

PusherRun(s) ==
  ZeroFn(s) \/ ZeroReturn(s) \/ DoBlock(s) \/ DoPush(s)

Fairness ==
  /\ \A w \in 1..MaxWorkers :
       WF_vars(WorkerRun(w)) /\ SF_vars(NextJobLock(w)) /\ SF_vars(TicketLock(w))
  /\ \A s \in Pushers : WF_vars(PusherRun(s)) /\ SF_vars(DoLock(s))
  /\ WF_vars(DtorNotifyAll \/ DtorJoin \/ DtorReturn)

FairSpec == Spec /\ Fairness

\* The two uses of the pool whose progress is at stake, small enough for the
\* fair behaviours to be explored: the Threaded test (one caller, no queue
\* limit, every worker) and the MultiplePusher test cut down to one worker
\* (every caller, the queue limit in force).
LiveInit ==
  /\ Init
  /\ \/ workers_ = 1..MaxWorkers /\ max_queue_size_ = 0 /\ pushers = 1
     \/ workers_ = {1} /\ max_queue_size_ = MaxPending /\ pushers = NumPushers

\* The steps of a pool that has workers.
LiveNext ==
  \/ \E s \in Pushers : DoCall(s)
  \/ \E s \in Pushers : DoLock(s)
  \/ \E s \in Pushers : DoBlock(s)
  \/ \E s \in Pushers : DoPush(s)
  \/ \E w \in workers_ : NextJobLock(w)
  \/ \E w \in workers_ : NextJobBlock(w)
  \/ \E w \in workers_ : NextJobTake(w)
  \/ \E w \in workers_ : NextJobNotify(w)
  \/ \E w \in workers_ : JobFnReturn(w)
  \/ \E w \in workers_ : TicketLock(w)
  \/ \E w \in workers_ : TicketBlock(w)
  \/ \E w \in workers_ : CompletionReturn(w)
  \/ \E w \in workers_ : TicketAdvance(w)
  \/ \E w \in workers_ : SpuriousJobAdded(w)
  \/ \E w \in workers_ : SpuriousTicketUpdate(w)
  \/ \E s \in Pushers : SpuriousJobRemoved(s)
  \/ DtorSetTerminate
  \/ DtorNotifyAll
  \/ DtorJoin
  \/ DtorReturn

LiveSpec == LiveInit /\ [][LiveNext]_vars /\ Fairness

\* ---------------------------------------------------------------- vocabulary
Threaded == workers_ # {}
NumWorkers == Cardinality(workers_)

\* The worker is between the start of completion_fn and ++ticket_num_.
InCompletion(w) == wpc[w] \in {"completion_fn", "tk_inc"}

\* How many entries of the completion log belong to the closure of call i.
RECURSIVE CountOf(_, _)
CountOf(log, i) ==
  IF log = <<>> THEN 0
  ELSE (IF Head(log).completion_fn = i THEN 1 ELSE 0) + CountOf(Tail(log), i)

\* The calls of Do that have returned.
Returned ==
  {i \in 0..(calls - 1) : \A s \in Pushers : spc[s] # "idle" => arg[s] # i}

\* Which callback ran with which value, in order, without the ticket.
Invocations(log) ==
  [k \in 1..Len(log) |->
     [completion_fn |-> log[k].completion_fn, value |-> log[k].value]]

\* What the num_workers = 0 branch of Do (on_completion(fn()), back to back on
\* the caller) yields for the first n calls of one caller.
RECURSIVE UnthreadedRun(_)
UnthreadedRun(n) ==
  IF n = 0 THEN <<>>
  ELSE Append(UnthreadedRun(n - 1),
              [completion_fn |-> n - 1, value |-> JobFn(n - 1)])

IsPrefix(a, b) ==
  Len(a) <= Len(b) /\ \A k \in 1..Len(a) : a[k] = b[k]

\* ---------------------------------------------------------------- claims
\* C1: with workers and one thread calling Do, the k-th completion callback
\* invoked (from 0) is the one of the k-th job submitted and carries ticket k:
\* strictly increasing, no gap, no repeat, whatever order job_fn finished in.
C1_CompletionsInSubmissionOrder ==
  (Threaded /\ pushers = 1) =>
    \A k \in 1..Len(completions) :
      /\ completions[k].job_id = k - 1
      /\ completions[k].completion_fn = k - 1

\* A later job has finished job_fn and waits for its turn while an earlier
\* completion has been invoked.
C1_Witness ==
  /\ Threaded /\ pushers = 1
  /\ Len(completions) >= 1
  /\ \E w \in workers_ : wpc[w] = "tk_blocked" /\ job[w].job_id > ticket_num_

\* C2: with workers, at most one worker is between the start of
\* completion_fn and the following increment of ticket_num_.
C2_OneCompletionAtATime ==
  Threaded => Cardinality({w \in workers_ : InCompletion(w)}) <= 1

\* One worker is inside completion_fn while another has finished job_fn and
\* is at the sequencer.
C2_Witness ==
  \E w1 \in workers_ : \E w2 \in workers_ \ {w1} :
    /\ wpc[w1] = "completion_fn"
    /\ wpc[w2] \in {"tk_lock", "tk_blocked"}

\* C3: with workers and max_pending_jobs > 0, the queue never holds more than
\* max_pending_jobs jobs, also with several threads in Do.
C3_QueueWithinLimit ==
  (Threaded /\ max_queue_size_ > 0) => Len(fn_queue_) <= max_queue_size_

\* The queue is full and two threads are blocked in Do at once.
C3_Witness ==
  /\ Threaded /\ max_queue_size_ > 0
  /\ Len(fn_queue_) = max_queue_size_
  /\ \E s1 \in Pushers : \E s2 \in Pushers \ {s1} :
       spc[s1] = "do_blocked" /\ spc[s2] = "do_blocked"

\* C4: when the destructor has returned, the queue is empty, ticket_num_
\* equals job_count_, every job whose Do returned has had job_fn and its
\* completion callback run, and (with workers) the callbacks ran in ticket
\* order.
C4_DrainOnShutdown ==
  dpc = "done" =>
    /\ fn_queue_ = <<>>
    /\ ticket_num_ = job_count_
    /\ \A w \in workers_ : wpc[w] = "exited"
    /\ \A i \in Returned : fn_runs[i] >= 1 /\ CountOf(completions, i) >= 1
    /\ Threaded =>
         /\ job_count_ = calls
         /\ \A k \in 1..Len(completions) : completions[k].job_id = k - 1

\* The destructor has returned and a job was still queued when it began.
C4_Witness ==
  /\ dpc = "done"
  /\ Threaded
  /\ queued_at_dtor >= 1
  /\ Returned # {}

\* C5: once the destructor has started, it eventually returns (every worker
\* exits and is joined).
C5_ShutdownTerminates ==
  (dpc # "live") ~> (dpc = "done")

\* C6: with workers and max_pending_jobs > 0, no job_fn and no completion
\* callback ever runs twice, and when the destructor has returned each
\* submitted job has had both run exactly once.
C6_ExactlyOnce ==
  (Threaded /\ max_queue_size_ > 0) =>
    \A i \in 0..(MaxJobs - 1) :
      /\ fn_runs[i] <= 1
      /\ CountOf(completions, i) <= 1
      /\ (dpc = "done" /\ i < calls) =>
           (fn_runs[i] = 1 /\ CountOf(completions, i) = 1)

\* Two threads have called Do, every job is submitted and the destructor has
\* returned.
C6_Witness ==
  /\ Threaded /\ max_queue_size_ > 0
  /\ dpc = "done"
  /\ calls = MaxJobs
  /\ pushers >= 2
  /\ \A s \in 1..pushers : arg[s] >= 0

\* C7: with W workers, max_pending_jobs = P > 0 and one thread calling Do,
\* at most W + P assigned tickets are not yet past the sequencer, so once
\* the job with ticket i is in, ticket i - W - P (when >= 0) is served.
C7_LagBound ==
  (Threaded /\ max_queue_size_ > 0 /\ pushers = 1) =>
    /\ job_count_ - ticket_num_ <= NumWorkers + max_queue_size_
    /\ \A i \in 0..(job_count_ - 1) :
         i - NumWorkers - max_queue_size_ >= 0 =>
           /\ ticket_num_ > i - NumWorkers - max_queue_size_
           /\ \E k \in 1..Len(completions) :
                completions[k].job_id >= i - NumWorkers - max_queue_size_

\* The lag is exactly W + P and the last ticket is at least W + P.
C7_Witness ==
  /\ Threaded /\ max_queue_size_ > 0 /\ pushers = 1
  /\ job_count_ - ticket_num_ = NumWorkers + max_queue_size_
  /\ job_count_ - 1 - NumWorkers - max_queue_size_ >= 0

\* C8: with num_workers = 0, a Do that has returned has run fn once and then
\* on_completion with fn's value, on the calling thread; while the caller is
\* in on_completion, fn has already run.
C8_UnthreadedRunsInline ==
  (~Threaded) =>
    /\ \A i \in Returned :
         /\ fn_runs[i] = 1
         /\ \E k \in 1..Len(completions) :
              /\ completions[k].completion_fn = i
              /\ completions[k].value = JobFn(i)
    /\ \A s \in Pushers :
         spc[s] = "z_completion" =>
           /\ fn_runs[arg[s]] = 1
           /\ fn_out[s] = JobFn(arg[s])
           /\ \E k \in 1..Len(completions) :
                /\ completions[k].completion_fn = arg[s]
                /\ completions[k].value = fn_out[s]
    /\ fn_queue_ = <<>> /\ job_count_ = 0

\* With no workers, a Do has returned and another call is made after it.
C8_Witness ==
  /\ ~Threaded
  /\ calls >= 2
  /\ Returned # {}
  /\ \A s \in Pushers : spc[s] = "idle"

\* C9: for one thread calling Do, the callbacks invoked (which, with which
\* value, in which order) are those of the num_workers = 0 branch for the
\* same calls: always a prefix of them, and all of them once the destructor
\* has returned; with workers under every schedule, and without.
C9_SameAsUnthreaded ==
  pushers = 1 =>
    /\ IsPrefix(Invocations(completions), UnthreadedRun(calls))
    /\ dpc = "done" => Invocations(completions) = UnthreadedRun(calls)

\* A pool with two workers has been destroyed after running every job.
C9_Witness ==
  /\ pushers = 1
  /\ NumWorkers >= 2
  /\ dpc = "done"
  /\ calls = MaxJobs
  /\ Len(completions) = MaxJobs

\* C10: with num_workers = 0 and several threads calling Do, at most one
\* thread is inside a completion callback.
C10_UnthreadedSerialized ==
  (~Threaded) => Cardinality({s \in Pushers : spc[s] = "z_completion"}) <= 1

\* C11: with workers, a worker inside job_fn holds neither fn_queue_mtx_ nor
\* ticket_mtx_, and at most num_workers executions of job_fn are in progress
\* (two at once are reached, see the witness).
C11_ComputeOutsideLocks ==
  Threaded =>
    /\ \A w \in workers_ :
         wpc[w] = "job_fn" =>
           /\ fn_queue_mtx_ # WorkerThread(w)
           /\ ticket_mtx_ # WorkerThread(w)
           /\ job[w] # NoJob
    /\ Cardinality({w \in 1..MaxWorkers : wpc[w] = "job_fn"}) <= NumWorkers
    /\ Cardinality({w \in workers_ : wpc[w] = "job_fn"})
         <= job_count_ - ticket_num_

\* Two workers are inside job_fn at the same time, for different jobs.
C11_Witness ==
  \E w1 \in workers_ : \E w2 \in workers_ \ {w1} :
    /\ wpc[w1] = "job_fn" /\ wpc[w2] = "job_fn"
    /\ job[w1].job_fn # job[w2].job_fn

\* C12: every completion callback is invoked with the value of the job_fn
\* submitted with it, after that job_fn has returned; a worker past job_fn
\* holds the result of its own job.
C12_CallbackGetsOwnResult ==
  /\ \A k \in 1..Len(completions) :
       /\ completions[k].value = JobFn(completions[k].completion_fn)
       /\ fn_runs[completions[k].completion_fn] >= 1
  /\ \A w \in workers_ :
       wpc[w] \in {"tk_lock", "tk_block", "tk_blocked", "completion_fn", "tk_inc"} =>
         /\ job[w].job_fn = job[w].completion_fn
         /\ result[w] = JobFn(job[w].job_fn)

\* Two callbacks have run in a pool where the ticket of a job differs from
\* the number of its call (two threads call Do).
C12_Witness ==
  /\ Threaded
  /\ Len(completions) >= 2
  /\ \E k \in 1..Len(completions) :
       completions[k].job_id # completions[k].completion_fn

\* C13: a job of a Do call made after terminate_now_ was set is never put in
\* the queue nor handed to a worker (the call is rejected).
C13_LateDoRejected ==
  \A i \in late_calls :
    /\ \A k \in 1..Len(fn_queue_) : fn_queue_[k].job_fn # i
    /\ \A w \in workers_ : job[w].job_fn # i

\* C14: when job_fn or completion_fn of the job with ticket T has thrown,
\* ticket_num_ is past T and the sequencer lock is not held by the thrower.
C14_FailedTicketServed ==
  \A w \in workers_ :
    wpc[w] = "threw" =>
      /\ ticket_num_ > job[w].job_id
      /\ ticket_mtx_ # WorkerThread(w)

\* C15: with workers and max_pending_jobs = 0, the wait predicate of Do holds
\* whatever the queue length and no thread ever waits on job_removed_.
C15_UnlimitedNeverWaits ==
  (Threaded /\ max_queue_size_ = 0) =>
    /\ DoPredicate
    /\ \A s \in Pushers : spc[s] \notin {"do_block", "do_blocked"}

\* Every worker is busy in job_fn and the queue holds all the other jobs,
\* more than any limit of the model.
C15_Witness ==
  /\ Threaded /\ max_queue_size_ = 0
  /\ \A w \in workers_ : wpc[w] = "job_fn"
  /\ Len(fn_queue_) + NumWorkers = MaxJobs
  /\ Len(fn_queue_) >= 1

\* C16: with workers, the step on which Do returns is the one that appends
\* the job to the queue; at that moment neither its job_fn nor its completion
\* callback has run.
C16_DoReturnsAfterEnqueue ==
  [][\A s \in Pushers :
       (Threaded /\ spc[s] # "idle" /\ spc'[s] = "idle") =>
         /\ fn_queue_' = Append(fn_queue_,
              [job_fn |-> arg[s], completion_fn |-> arg[s], job_id |-> job_count_])
         /\ fn_runs'[arg[s]] = 0
         /\ CountOf(completions', arg[s]) = 0]_vars

\* Do has returned for two jobs: one is still queued, one is in job_fn.
C16_Witness ==
  /\ Threaded
  /\ \E i \in Returned : \E k \in 1..Len(fn_queue_) : fn_queue_[k].job_fn = i
  /\ \E i \in Returned : \E w \in workers_ :
       wpc[w] = "job_fn" /\ job[w].job_fn = i /\ fn_runs[i] = 0

\* C17: ticket_num_ starts at 0 and changes only by +1, on the step after the
\* completion callback of the job with that ticket has returned; a worker
\* enters completion_fn for ticket T only when ticket_num_ = T.
C17_SequencerCounter ==
  /\ ticket_num_ = 0
  /\ [][/\ ticket_num_' # ticket_num_ =>
             /\ ticket_num_' = ticket_num_ + 1
             /\ \E w \in workers_ :
                  /\ wpc[w] = "tk_inc" /\ wpc'[w] # "tk_inc"
                  /\ job[w].job_id = ticket_num_
                  /\ completions[Len(completions)].job_id = ticket_num_
        /\ \A w \in workers_ :
             (wpc[w] # "completion_fn" /\ wpc'[w] = "completion_fn") =>
               /\ ticket_num_ = job[w].job_id
               /\ ticket_num_' = ticket_num_]_vars

\* Two tickets are served and a worker is inside the third callback.
C17_Witness ==
  /\ ticket_num_ >= 2
  /\ \E w \in workers_ : wpc[w] = "completion_fn" /\ job[w].job_id = ticket_num_

\* C18: the queue holds consecutive tickets in increasing order ending at
\* job_count_ - 1; a push assigns ticket job_count_ and adds one to it; a
\* worker always dequeues the smallest ticket not dequeued yet.
C18_TicketsConsecutive ==
  /\ [](\A k \in 1..Len(fn_queue_) :
          fn_queue_[k].job_id = job_count_ - Len(fn_queue_) + k - 1)
  /\ [][/\ job_count_' # job_count_ =>
             /\ job_count_' = job_count_ + 1
             /\ fn_queue_' = Append(fn_queue_, fn_queue_'[Len(fn_queue_')])
             /\ fn_queue_'[Len(fn_queue_')].job_id = job_count_
        /\ \A w \in workers_ :
             (job'[w] # job[w] /\ job'[w] # NoJob) =>
               /\ job'[w].job_id = job_count_ - Len(fn_queue_)
               /\ fn_queue_' = Tail(fn_queue_)]_vars

\* Two threads have pushed in the opposite order of their calls, so the
\* tickets in the queue differ from the call numbers.
C18_Witness ==
  /\ Len(fn_queue_) >= 2
  /\ \E k \in 1..Len(fn_queue_) : fn_queue_[k].job_fn # fn_queue_[k].job_id

\* C19: under fair scheduling, every job that Do has queued eventually has
\* its completion callback run: from every state a state is reached in which
\* all the tickets assigned so far have had their callback and ticket_num_
\* has caught up with job_count_ (both only grow).
C19_EveryJobCompletes ==
  []<>(/\ ticket_num_ = job_count_
       /\ \A t \in 0..(job_count_ - 1) :
            \E k \in 1..Len(completions) : completions[k].job_id = t)

\* Without any shutdown, every job of the run has been queued and served by
\* a pool of several workers.
C19_Witness ==
  /\ NumWorkers >= 2
  /\ dpc = "live"
  /\ job_count_ = MaxJobs
  /\ ticket_num_ = MaxJobs
  /\ Len(completions) = MaxJobs

\* C20: under fair scheduling, a thread that waits in Do because the queue is
\* full is eventually admitted: its job is pushed and Do returns.
C20_BlockedPusherAdmitted ==
  \A s \in Pushers :
    (spc[s] \in {"do_block", "do_blocked"}) ~> (spc[s] = "idle")

\* Two threads are blocked in Do on a full queue.
C20_Witness ==
  /\ max_queue_size_ > 0
  /\ Len(fn_queue_) = max_queue_size_
  /\ \A s \in Pushers : spc[s] = "do_blocked"
  /\ calls = MaxJobs

\* C21: a worker leaves its loop only in a step taken while it holds
\* fn_queue_mtx_ and sees terminate_now_ set and the queue empty; when it sees
\* terminate_now_ set and the queue non-empty it takes the head job instead;
\* and an exited worker holds no job (every job it dequeued had its callback
\* run and its ticket served).
C21_WorkerExitRule ==
  /\ [](\A w \in workers_ :
          wpc[w] = "exited" =>
            /\ job[w] = NoJob
            /\ terminate_now_)
  /\ [][\A w \in workers_ :
          /\ (wpc[w] # "exited" /\ wpc'[w] = "exited") =>
                /\ wpc[w] = "nj_check"
                /\ fn_queue_mtx_ = WorkerThread(w)
                /\ terminate_now_
                /\ fn_queue_ = <<>>
                /\ job[w] = NoJob
          /\ (wpc[w] = "nj_check" /\ wpc'[w] # "nj_check"
                /\ terminate_now_ /\ fn_queue_ # <<>>) =>
                /\ wpc'[w] = "nj_notify"
                /\ job'[w] = Head(fn_queue_)
                /\ fn_queue_' = Tail(fn_queue_)]_vars

\* C21 happens: the destructor found jobs queued, a worker that had already
\* seen terminate_now_ took one of them, and a worker has since exited.
C21_Witness ==
  /\ queued_at_dtor >= 1
  /\ \E w \in workers_ : wpc[w] = "exited"
  /\ \E v \in workers_ : wpc[v] \in {"job_fn", "tk_lock", "completion_fn"}
                           /\ job[v] # NoJob

\* C22: no thread holds fn_queue_mtx_ and ticket_mtx_ together; ticket_mtx_ is
\* only ever acquired by a worker at the sequencer, never by a caller of Do
\* and never by a worker inside NextJob; and while a worker is inside its
\* completion callback, no step of Do, of NextJob or of job_fn of another
\* thread is held back by it: each is enabled whenever fn_queue_mtx_ alone
\* allows it.
C22_LockIndependence ==
  /\ [](/\ ticket_mtx_[1] # "pusher"
        /\ \A w \in workers_ :
             /\ ~(fn_queue_mtx_ = WorkerThread(w) /\ ticket_mtx_ = WorkerThread(w))
             /\ wpc[w] \in {"nj_lock", "nj_check", "nj_block", "nj_blocked",
                             "nj_notify", "job_fn"} =>
                  ticket_mtx_ # WorkerThread(w)
             /\ wpc[w] = "completion_fn" =>
                  /\ \A s \in Pushers :
                       /\ (spc[s] = "do_lock" /\ fn_queue_mtx_ = NoThread) =>
                             ENABLED DoLock(s)
                       /\ spc[s] = "do_push" => ENABLED DoPush(s)
                  /\ \A v \in workers_ \ {w} :
                       /\ (wpc[v] = "nj_lock" /\ fn_queue_mtx_ = NoThread) =>
                             ENABLED NextJobLock(v)
                       /\ wpc[v] = "nj_check" => ENABLED NextJobTake(v)
                       /\ wpc[v] = "nj_notify" => ENABLED NextJobNotify(v)
                       /\ wpc[v] = "job_fn" => ENABLED JobFnReturn(v))
  /\ [][(ticket_mtx_' # ticket_mtx_ /\ ticket_mtx_' # NoThread) =>
          \E w \in workers_ : /\ ticket_mtx_' = WorkerThread(w)
                               /\ wpc[w] = "tk_lock"
                               /\ fn_queue_mtx_ # WorkerThread(w)]_vars

\* C22 happens: one worker is inside its callback with ticket_mtx_ held while
\* a caller of Do holds fn_queue_mtx_ about to push and another worker is
\* about to lock fn_queue_mtx_ in NextJob.
C22_Witness ==
  \E w \in workers_ : \E v \in workers_ \ {w} : \E s \in Pushers :
    /\ wpc[w] = "completion_fn"
    /\ ticket_mtx_ = WorkerThread(w)
    /\ spc[s] = "do_push"
    /\ fn_queue_mtx_ = PusherThread(s)
    /\ wpc[v] = "nj_lock"

\* C23: in a pool with workers, every assigned ticket t < job_count_ is in
\* exactly one place: served (t < ticket_num_), held by exactly one worker, or
\* at exactly one position of the queue; every held ticket is smaller than
\* every queued ticket; ticket_num_ <= job_count_; and ticket_num_ is the
\* smallest ticket held or queued, or job_count_ when there is none.
C23_TicketConservation ==
  Threaded =>
    LET held(t) == {w \in workers_ : job[w].job_id = t}
        queued(t) == {k \in 1..Len(fn_queue_) : fn_queue_[k].job_id = t}
        pending == {t \in 0..(job_count_ - 1) : held(t) # {} \/ queued(t) # {}}
    IN /\ \A t \in 0..(job_count_ - 1) :
            \/ t < ticket_num_ /\ held(t) = {} /\ queued(t) = {}
            \/ t >= ticket_num_ /\ Cardinality(held(t)) = 1 /\ queued(t) = {}
            \/ t >= ticket_num_ /\ held(t) = {} /\ Cardinality(queued(t)) = 1
       /\ \A w \in workers_ : job[w] # NoJob => job[w].job_id \in 0..(job_count_ - 1)
       /\ \A k \in 1..Len(fn_queue_) : fn_queue_[k].job_id \in 0..(job_count_ - 1)
       /\ \A w \in workers_ : \A k \in 1..Len(fn_queue_) :
            job[w] # NoJob => job[w].job_id < fn_queue_[k].job_id
       /\ ticket_num_ <= job_count_
       /\ IF pending = {}
            THEN ticket_num_ = job_count_
            ELSE ticket_num_ \in pending /\ \A t \in pending : ticket_num_ <= t

\* C23 happens: one ticket has been served, the next is held by a worker and
\* a later one waits in the queue.
C23_Witness ==
  /\ ticket_num_ >= 1
  /\ \E w \in workers_ : job[w] # NoJob /\ job[w].job_id = ticket_num_
  /\ fn_queue_ # <<>>
  /\ Head(fn_queue_).job_id > ticket_num_

\* C24: with num_workers = 0 nothing of the queue or the sequencer is ever
\* touched: fn_queue_ stays empty, job_count_ and ticket_num_ stay 0, neither
\* mutex is taken, a caller of Do is only ever inside fn() or on_completion
\* (never at a wait, whatever max_queue_size_ is) and can always go on; and
\* each step of the destructor is enabled as soon as it is reached, so the
\* destructor returns without waiting.
C24_ZeroWorkerFrame ==
  /\ [](~Threaded =>
          /\ fn_queue_ = <<>> /\ job_count_ = 0 /\ ticket_num_ = 0
          /\ fn_queue_mtx_ = NoThread /\ ticket_mtx_ = NoThread
          /\ \A s \in Pushers :
               /\ spc[s] \in {"idle", "z_fn", "z_completion"}
               /\ spc[s] = "z_fn" => ENABLED ZeroFn(s)
               /\ spc[s] = "z_completion" => ENABLED ZeroReturn(s)
          /\ dpc = "d_notify" => ENABLED DtorNotifyAll
          /\ dpc = "d_join" => join_i = 0 /\ ENABLED DtorReturn)
  /\ [][~Threaded => UNCHANGED <<fn_queue_, job_count_, ticket_num_,
                                  fn_queue_mtx_, ticket_mtx_, wpc>>]_vars

\* C24 happens: a pool with no workers and a queue limit has run more calls
\* than the limit and has been destroyed.
C24_Witness ==
  /\ ~Threaded
  /\ max_queue_size_ > 0
  /\ Len(completions) > max_queue_size_
  /\ dpc = "done"

TypeOK ==
  /\ fn_queue_mtx_ \in {NoThread} \cup {WorkerThread(w) : w \in workers_}
                       \cup {PusherThread(s) : s \in Pushers}
  /\ ticket_mtx_ \in {NoThread} \cup {WorkerThread(w) : w \in workers_}
  /\ job_count_ \in 0..MaxJobs
  /\ ticket_num_ \in 0..MaxJobs

====
